---- MODULE Spec2Model ----
(***************************************************************************)
(* Model of the monitoring engine of main.py (PingMonitorApp): the timer   *)
(* driven scheduler, the worker thread of each probing round, the Tk event *)
(* queue that carries probe results to update_row, the per-target status   *)
(* and RTT history, the event log, the down-alert dialog and the Telegram  *)
(* alert, the host-management operations and shutdown.                     *)
(*                                                                         *)
(* Threads.  The Tk main thread runs one callback at a time; a callback    *)
(* runs to completion unless it opens a modal dialog, whose nested event   *)
(* loop dispatches further callbacks.  Each probing round is one worker    *)
(* thread (check_all_hosts); its only interactions with shared state are   *)
(* the copy of self.hosts and self.after(0, update_row, ...).              *)
(***************************************************************************)
EXTENDS Integers, Sequences, FiniteSets, TLC

\* Python's None, and a value that is not None (an optional value is a
\* sequence of length 0 or 1)
None == <<>>
Some(x) == <<x>>

\* program constant (main.py:50)
MAX_RTT_POINTS == 200

\* bounds of the model
Addrs == {"a", "b"}
NameInputs == {"", "n"}
MaxHosts == 2
MaxWorkers == 2
\* probing rounds started, probes completed, operations of the user
MaxTicks == 2
MaxClock == 2
MaxUserOps == 2

VARIABLES
    hosts,              \* self.hosts: list of {"name", "host"}
    rows,               \* self.rows: host -> row (its "name")
    prev_status,        \* self.prev_status: host -> None | TRUE | FALSE
    rtt_history,        \* self.rtt_history: host -> list of (datetime, rtt | None)
    events,             \* self.events: list of event lines
    stop,               \* self._stop
    destroyed,          \* the Tk root is destroyed: mainloop dispatches nothing more
    timer,              \* an after(..., schedule_checks) timer is pending
    workers,            \* the check_all_hosts threads, one slot per thread
    queue,              \* pending after(0, update_row, ...) callbacks, FIFO
    dialogs,            \* update_row calls blocked in messagebox.showwarning, innermost last
    telegram_enabled,   \* self.telegram_enabled
    telegram_creds,     \* bot token and chat id are both non-empty
    tg_threads,         \* running _worker threads of send_telegram_alert
    tg_calls,           \* history variable: calls of send_telegram_alert so far
    clock,              \* wall clock
    ticks,              \* probing rounds started so far
    ops,                \* operations the user performed so far
    applied,            \* history variable: per target, the update_row calls applied since its state was created
    discarded           \* history variable: update_row calls that returned at "if not row"

vars == <<hosts, rows, prev_status, rtt_history, events, stop, destroyed, timer,
          workers, queue, dialogs, telegram_enabled, telegram_creds, tg_threads,
          tg_calls, clock, ticks, ops, applied, discarded>>

----------------------------------------------------------------------------
(* helpers *)

\* dict.get(k, default)
Get(d, k, default) == IF k \in DOMAIN d THEN d[k] ELSE default

\* d[k] = v on a dict
Put(d, k, v) == [x \in DOMAIN d \cup {k} |-> IF x = k THEN v ELSE d[x]]

HostSet(hs) == {hs[i].host : i \in DOMAIN hs}

RemoveAt(s, i) == [j \in 1..(Len(s) - 1) |-> IF j < i THEN s[j] ELSE s[j + 1]]

Last(s) == s[Len(s)]

----------------------------------------------------------------------------
(* ping_host *)

\* what the ping subprocess can do: raise (spawn failure), exit non-zero
\* (1: no reply within the timeout, 2: other error), or exit 0 with a
\* "time=" token that parses ("ok", to value), does not parse ("bad") or is
\* missing ("none"); elapsed is the measured duration of the call
Outcomes ==
    { [exc |-> TRUE,  returncode |-> 0, time |-> "none", value |-> 0, elapsed |-> 2],
      [exc |-> FALSE, returncode |-> 1, time |-> "none", value |-> 0, elapsed |-> 2],
      [exc |-> FALSE, returncode |-> 2, time |-> "none", value |-> 0, elapsed |-> 2],
      [exc |-> FALSE, returncode |-> 0, time |-> "ok",   value |-> 1, elapsed |-> 2],
      [exc |-> FALSE, returncode |-> 0, time |-> "bad",  value |-> 0, elapsed |-> 2] }

IsFailure(o) == o.exc \/ o.returncode # 0
IsTimeout(o) == ~o.exc /\ o.returncode = 1

\* ping_host without the test of the return code (line 86)
ping_host_IgnoresExit(o) ==
    IF o.exc THEN [is_up |-> FALSE, rtt |-> None]
    ELSE IF o.time \in {"none", "bad"} THEN [is_up |-> TRUE, rtt |-> Some(o.elapsed)]
    ELSE [is_up |-> TRUE, rtt |-> Some(o.value)]

ping_host(o) ==
    IF o.exc THEN [is_up |-> FALSE, rtt |-> None]
    ELSE IF o.returncode # 0 THEN [is_up |-> FALSE, rtt |-> None]
    ELSE IF o.time \in {"none", "bad"} THEN [is_up |-> TRUE, rtt |-> Some(o.elapsed)]
    ELSE [is_up |-> TRUE, rtt |-> Some(o.value)]

----------------------------------------------------------------------------
(* build_rows: re-synchronisation of the per-target maps with self.hosts *)

\* SyncPrev that keeps the entries of removed targets
SyncPrev_KeepsRemoved(hs) ==
    [h \in HostSet(hs) \cup DOMAIN prev_status |-> Get(prev_status, h, None)]

SyncPrev(hs) == [h \in HostSet(hs) |-> Get(prev_status, h, None)]
\* SyncHistory that starts every history anew
SyncHistory_Resets(hs) == [h \in HostSet(hs) |-> <<>>]

SyncHistory(hs) == [h \in HostSet(hs) |-> Get(rtt_history, h, <<>>)]
SyncApplied(hs) == [h \in HostSet(hs) |-> Get(applied, h, <<>>)]
\* self.rows[h["host"]] = {...}: a later entry of the same address overwrites
SyncRows(hs) ==
    [h \in HostSet(hs) |->
        LET last == CHOOSE i \in DOMAIN hs :
                        /\ hs[i].host = h
                        /\ \A j \in DOMAIN hs : hs[j].host = h => j <= i
        IN  hs[last].name]

build_rows(hs) ==
    /\ rows' = SyncRows(hs)
    /\ prev_status' = SyncPrev(hs)
    /\ rtt_history' = SyncHistory(hs)
    /\ applied' = SyncApplied(hs)

----------------------------------------------------------------------------
(* the Tk main thread *)

\* CanDispatch of a warning dialog that runs no event loop of its own
CanDispatch_NoNestedLoop == ~destroyed /\ dialogs = <<>>

\* the event loop (mainloop, or the nested loop of an open dialog) can
\* dispatch a callback
CanDispatch == ~destroyed

Idle == [pc |-> "idle"]

FreeSlots == {w \in 1..MaxWorkers : workers[w].pc = "idle"}

NewWorker(hs) ==
    [pc |-> "ping", snap |-> hs, i |-> 1, outcome |-> None,
     is_up |-> FALSE, rtt |-> None, now |-> 0, handed |-> <<>>]

\* schedule_checks that starts a round only when the previous one is over
schedule_checks_WaitsForRound ==
    /\ CanDispatch
    /\ timer
    /\ \A w \in 1..MaxWorkers : workers[w].pc = "idle"
    /\ ticks < MaxTicks
    /\ timer' = TRUE
    /\ ticks' = ticks + 1
    /\ IF hosts = <<>>
       THEN UNCHANGED workers
       ELSE workers' = [workers EXCEPT ![1] = NewWorker(hosts)]
    /\ UNCHANGED <<discarded, hosts, rows, prev_status, rtt_history, events, stop, destroyed,
                   queue, dialogs, telegram_enabled, telegram_creds, tg_threads, tg_calls,
                   clock, ops, applied>>

\* schedule_checks on a timer of its own that outlives the Tk root and does
\* not look at _stop
schedule_checks_AfterClose ==
    /\ timer
    /\ FreeSlots # {}
    /\ ticks < MaxTicks
    /\ timer' = TRUE
    /\ ticks' = ticks + 1
    /\ IF hosts = <<>>
       THEN UNCHANGED workers
       ELSE LET w == CHOOSE x \in FreeSlots : \A y \in FreeSlots : x <= y
            IN  workers' = [workers EXCEPT ![w] = NewWorker(hosts)]
    /\ UNCHANGED <<discarded, hosts, rows, prev_status, rtt_history, events, stop, destroyed,
                   queue, dialogs, telegram_enabled, telegram_creds, tg_threads, tg_calls,
                   clock, ops, applied>>

\* schedule_checks (timer callback)
schedule_checks ==
    /\ CanDispatch
    /\ timer
    /\ FreeSlots # {}
    /\ ticks < MaxTicks
    /\ IF stop
       THEN /\ timer' = FALSE
            /\ UNCHANGED <<workers, ticks>>
       ELSE /\ timer' = TRUE
            /\ ticks' = ticks + 1
            /\ IF hosts = <<>>
               THEN UNCHANGED workers
               ELSE LET w == CHOOSE x \in FreeSlots : \A y \in FreeSlots : x <= y
                    IN  workers' = [workers EXCEPT ![w] = NewWorker(hosts)]
    /\ UNCHANGED <<discarded, hosts, rows, prev_status, rtt_history, events, stop, destroyed,
                   queue, dialogs, telegram_enabled, telegram_creds, tg_threads, tg_calls,
                   clock, ops, applied>>

\* AppendSample that evicts already at len(lst) >= MAX_RTT_POINTS
AppendSample_EvictsAtCapacity(lst, sample) ==
    LET l2 == Append(lst, sample)
    IN  IF Len(l2) >= MAX_RTT_POINTS THEN Tail(l2) ELSE l2

\* AppendSample with lst.pop() in place of lst.pop(0)
AppendSample_PopNewest(lst, sample) ==
    LET l2 == Append(lst, sample)
    IN  IF Len(l2) > MAX_RTT_POINTS THEN SubSeq(l2, 1, Len(l2) - 1) ELSE l2

\* rtt_history append of update_row (lines 599-602)
AppendSample(lst, sample) ==
    LET l2 == Append(lst, sample)
    IN  IF Len(l2) > MAX_RTT_POINTS THEN Tail(l2) ELSE l2

\* IsTransition without the test for None
IsTransition_NoneDiffers(prev, is_up) == prev # Some(is_up)

\* the transition test of update_row (line 616)
IsTransition(prev, is_up) == prev # None /\ prev # Some(is_up)

\* IsDownAlert on the level instead of the edge
IsDownAlert_EveryDown(prev, is_up) == is_up = FALSE

\* the alert test of update_row (line 623)
IsDownAlert(prev, is_up) == prev = Some(TRUE) /\ is_up = FALSE

StatusStr(is_up) == IF is_up THEN "UP" ELSE "DOWN"

\* append_event on a log that keeps only the newest line
append_event_KeepsLast(evs, timestamp, name, host, status) ==
    <<[timestamp |-> timestamp, name |-> name, host |-> host, status |-> status]>>

\* append_event: the line f"[{timestamp}] {name} ({host}): {status}"
append_event(evs, timestamp, name, host, status) ==
    Append(evs, [timestamp |-> timestamp, name |-> name, host |-> host, status |-> status])

\* what update_row does with the call m = (host, name, is_up, rtt, now) at
\* time t to the state st of its target: st.prev = prev_status[host],
\* st.hist = rtt_history[host], st.evs = events, st.app = applied[host];
\* .alert tells whether the warning dialog is raised
ApplyResult(st, m, t) ==
    LET prev == st.prev
        sample == [t |-> t, rtt |-> IF m.is_up THEN m.rtt ELSE None]
        trans == IsTransition(prev, m.is_up)
        alert == IsDownAlert(prev, m.is_up)
    IN  [prev |-> Some(m.is_up),
         hist |-> AppendSample(st.hist, sample),
         evs |-> IF trans
                 THEN append_event(st.evs, m.now, m.name, m.host, StatusStr(m.is_up))
                 ELSE st.evs,
         app |-> Append(st.app, [is_up |-> m.is_up, rtt |-> sample.rtt, now |-> m.now,
                                 t |-> t, name |-> m.name, prev |-> prev,
                                 event |-> IF trans THEN StatusStr(m.is_up) ELSE "none",
                                 alert |-> alert]),
         alert |-> alert]

\* the row test of update_row (lines 588-590): the result is dropped
\* when the target has no row
HasRow_Always(host) == TRUE

HasRow(host) == host \in DOMAIN rows

\* update_row, from its dispatch up to its return or the opening of the
\* warning dialog
update_row ==
    /\ CanDispatch
    /\ queue # <<>>
    /\ LET m == Head(queue)
           host == m.host
       IN  /\ queue' = Tail(queue)
           /\ IF ~HasRow(host)
              THEN /\ discarded' = discarded + 1
                   /\ UNCHANGED <<prev_status, rtt_history, events, dialogs, applied>>
              ELSE LET st == [prev |-> Get(prev_status, host, None),
                              hist |-> Get(rtt_history, host, <<>>),
                              evs |-> events,
                              app |-> Get(applied, host, <<>>)]
                       st2 == ApplyResult(st, m, clock)
                   IN  /\ rtt_history' = Put(rtt_history, host, st2.hist)
                       /\ prev_status' = Put(prev_status, host, st2.prev)
                       /\ events' = st2.evs
                       /\ applied' = Put(applied, host, st2.app)
                       /\ dialogs' = IF st2.alert
                                     THEN Append(dialogs, [name |-> m.name, host |-> host])
                                     ELSE dialogs
                       /\ UNCHANGED discarded
    /\ UNCHANGED <<hosts, rows, stop, destroyed, timer, workers,
                   telegram_enabled, telegram_creds, tg_threads, tg_calls, clock, ticks, ops>>

\* send_telegram_alert: starts a _worker thread when enabled and configured
send_telegram_alert ==
    /\ tg_calls' = tg_calls + 1
    /\ tg_threads' = IF telegram_enabled /\ telegram_creds THEN tg_threads + 1 ELSE tg_threads

\* the user closes the innermost warning dialog: showwarning returns and
\* update_row goes on to send_telegram_alert
dialog_closed ==
    /\ CanDispatch
    /\ dialogs # <<>>
    /\ dialogs' = SubSeq(dialogs, 1, Len(dialogs) - 1)
    /\ send_telegram_alert
    /\ UNCHANGED <<discarded, hosts, rows, prev_status, rtt_history, events, stop, destroyed, timer,
                   workers, queue, telegram_enabled, telegram_creds, clock, ticks, ops, applied>>

\* after destroy() the open dialogs unwind, innermost first: showwarning
\* either returns (and send_telegram_alert runs) or raises TclError
dialog_unwound ==
    /\ destroyed
    /\ dialogs # <<>>
    /\ dialogs' = SubSeq(dialogs, 1, Len(dialogs) - 1)
    /\ \/ send_telegram_alert
       \/ UNCHANGED <<tg_threads, tg_calls>>
    /\ UNCHANGED <<discarded, hosts, rows, prev_status, rtt_history, events, stop, destroyed, timer,
                   workers, queue, telegram_enabled, telegram_creds, clock, ticks, ops, applied>>

\* _worker of send_telegram_alert ends; a failed urlopen is swallowed
telegram_worker ==
    /\ tg_threads > 0
    /\ tg_threads' = tg_threads - 1
    /\ UNCHANGED <<discarded, hosts, rows, prev_status, rtt_history, events, stop, destroyed, timer,
                   workers, queue, dialogs, telegram_enabled, telegram_creds, tg_calls, clock, ticks, ops, applied>>

\* on_close without self.destroy()
on_close_NoDestroy ==
    /\ CanDispatch
    /\ stop' = TRUE
    /\ UNCHANGED <<discarded, hosts, rows, prev_status, rtt_history, events, destroyed, timer, workers,
                   queue, dialogs, telegram_enabled, telegram_creds, tg_threads, tg_calls,
                   clock, ticks, ops, applied>>

\* on_close
on_close ==
    /\ CanDispatch
    /\ IF stop
       THEN UNCHANGED <<stop, destroyed>>
       ELSE /\ stop' = TRUE
            /\ destroyed' = TRUE
    /\ UNCHANGED <<discarded, hosts, rows, prev_status, rtt_history, events, timer, workers, queue,
                   dialogs, telegram_enabled, telegram_creds, tg_threads, tg_calls, clock, ticks, ops, applied>>

----------------------------------------------------------------------------
(* check_all_hosts: the worker thread of one probing round *)

\* ping_host returns for the current target of worker w (lines 554-555)
ping_done(w) ==
    /\ workers[w].pc = "ping"
    /\ clock < MaxClock
    /\ clock' = clock + 1
    /\ \E o \in Outcomes :
          LET r == ping_host(o)
          IN  workers' = [workers EXCEPT ![w] =
                              [@ EXCEPT !.pc = "post", !.outcome = Some(o), !.is_up = r.is_up,
                                        !.rtt = r.rtt, !.now = clock + 1]]
    /\ UNCHANGED <<discarded, hosts, rows, prev_status, rtt_history, events, stop, destroyed, timer,
                   queue, dialogs, telegram_enabled, telegram_creds, tg_threads, tg_calls, ticks, ops, applied>>

\* NextTarget of a loop that leaves out the target after the current one
NextTarget_SkipsOne(wk) ==
    IF wk.i + 1 < Len(wk.snap)
    THEN [wk EXCEPT !.pc = "ping", !.i = wk.i + 2, !.outcome = None, !.is_up = FALSE,
                    !.rtt = None, !.now = 0,
                    !.handed = Append(wk.handed, wk.snap[wk.i].host)]
    ELSE Idle

\* the worker after it handed over the result of its current target
NextTarget(wk) ==
    IF wk.i < Len(wk.snap)
    THEN [wk EXCEPT !.pc = "ping", !.i = wk.i + 1, !.outcome = None, !.is_up = FALSE,
                    !.rtt = None, !.now = 0,
                    !.handed = Append(wk.handed, wk.snap[wk.i].host)]
    ELSE Idle

\* self.after(0, self.update_row, host, name, is_up, rtt, now) (line 556);
\* once the root is destroyed the call raises and the thread ends
post_result(w) ==
    /\ workers[w].pc = "post"
    /\ LET wk == workers[w]
           h == wk.snap[wk.i]
       IN  IF destroyed
           THEN /\ workers' = [workers EXCEPT ![w] = Idle]
                /\ UNCHANGED queue
           ELSE /\ queue' = Append(queue, [host |-> h.host, name |-> h.name, is_up |-> wk.is_up,
                                           rtt |-> wk.rtt, now |-> wk.now])
                /\ workers' = [workers EXCEPT ![w] = NextTarget(wk)]
    /\ UNCHANGED <<discarded, hosts, rows, prev_status, rtt_history, events, stop, destroyed, timer,
                   dialogs, telegram_enabled, telegram_creds, tg_threads, tg_calls, clock, ticks, ops, applied>>

----------------------------------------------------------------------------
(* host management, Telegram settings, event history window *)

\* on_save of the host management window; sel = 0: nothing selected
on_save(name, host, sel) ==
    /\ CanDispatch
    /\ ops < MaxUserOps
    /\ ops' = ops + 1
    /\ IF host = ""
       THEN UNCHANGED <<hosts, rows, prev_status, rtt_history, applied>>
       ELSE LET nm == IF name = "" THEN host ELSE name
                hs == IF sel # 0
                      THEN [hosts EXCEPT ![sel] = [name |-> nm, host |-> host]]
                      ELSE Append(hosts, [name |-> nm, host |-> host])
            IN  /\ Len(hs) <= MaxHosts
                /\ hosts' = hs
                /\ build_rows(hs)
    /\ UNCHANGED <<discarded, events, stop, destroyed, timer, workers, queue, dialogs,
                   telegram_enabled, telegram_creds, tg_threads, tg_calls, clock, ticks>>

\* on_delete of the host management window, answered yes
on_delete(sel) ==
    /\ CanDispatch
    /\ ops < MaxUserOps
    /\ ops' = ops + 1
    /\ hosts' = RemoveAt(hosts, sel)
    /\ build_rows(RemoveAt(hosts, sel))
    /\ UNCHANGED <<discarded, events, stop, destroyed, timer, workers, queue, dialogs,
                   telegram_enabled, telegram_creds, tg_threads, tg_calls, clock, ticks>>

\* on_save_tg of the Telegram settings window
on_save_tg(enabled, creds) ==
    /\ CanDispatch
    /\ ops < MaxUserOps
    /\ ops' = ops + 1
    /\ telegram_enabled' = enabled
    /\ telegram_creds' = creds
    /\ UNCHANGED <<discarded, hosts, rows, prev_status, rtt_history, events, stop, destroyed, timer,
                   workers, queue, dialogs, tg_threads, tg_calls, clock, ticks, applied>>

\* clear_history of the event history window, answered yes
clear_history ==
    /\ CanDispatch
    /\ ops < MaxUserOps
    /\ ops' = ops + 1
    /\ events' = <<>>
    /\ UNCHANGED <<discarded, hosts, rows, prev_status, rtt_history, stop, destroyed, timer,
                   workers, queue, dialogs, telegram_enabled, telegram_creds, tg_threads, tg_calls,
                   clock, ticks, applied>>

----------------------------------------------------------------------------
(* specifications *)

\* host lists that load_settings can produce
InitialHosts ==
    { <<[name |-> "n", host |-> "a"]>>,
      <<[name |-> "n", host |-> "a"], [name |-> "b", host |-> "b"]>> }

InitCommon ==
    /\ hosts \in InitialHosts
    /\ rows = SyncRows(hosts)
    /\ stop = FALSE
    /\ destroyed = FALSE
    /\ timer = TRUE
    /\ workers = [w \in 1..MaxWorkers |-> Idle]
    /\ queue = <<>>
    /\ dialogs = <<>>
    /\ telegram_enabled = FALSE
    /\ telegram_creds = FALSE
    /\ tg_threads = 0
    /\ clock = 0
    /\ discarded = 0

\* the state __init__ leaves
Init ==
    /\ InitCommon
    /\ ticks = 0
    /\ ops = 0
    /\ prev_status = [h \in HostSet(hosts) |-> None]
    /\ rtt_history = [h \in HostSet(hosts) |-> <<>>]
    /\ events = <<>>
    /\ tg_calls = 0
    /\ applied = [h \in HostSet(hosts) |-> <<>>]

\* the state of a target after the results p[lo..hi] (p a sequence of is_up
\* values, the last one at time 0, one time unit apart) were applied to its
\* state st by update_row, one after the other
RECURSIVE Replay(_, _, _, _, _)
Replay(st, h, p, lo, hi) ==
    IF lo > hi THEN st
    ELSE IF lo = hi
    THEN LET m == [host |-> h.host, name |-> h.name, is_up |-> p[lo],
                   rtt |-> IF p[lo] THEN Some(1) ELSE None, now |-> lo - Len(p)]
         IN  ApplyResult(st, m, lo - Len(p))
    ELSE LET mid == (lo + hi) \div 2
             half == Replay(st, h, p, lo, mid)
         IN  IF half.alert \in BOOLEAN THEN Replay(half, h, p, mid + 1, hi) ELSE st

\* the state __init__ gives a target
Fresh == [prev |-> None, hist |-> <<>>, evs |-> <<>>, app |-> <<>>, alert |-> FALSE]

AllUp(n) == [i \in 1..n |-> TRUE]

\* results the first configured target has already had applied in InitHist
Prefixes ==
    { <<>>, <<TRUE, TRUE, FALSE>>, AllUp(MAX_RTT_POINTS - 1), AllUp(MAX_RTT_POINTS) }

\* a state of the running program in which the first target already has a
\* past: the user did one operation, no round is in progress, every dialog
\* was closed
InitHist ==
    /\ InitCommon
    /\ ticks = 0
    /\ ops = 1
    /\ \E p \in Prefixes :
          LET st == Replay(Fresh, hosts[1], p, 1, Len(p))
              first == hosts[1].host
          IN  /\ prev_status = [h \in HostSet(hosts) |-> IF h = first THEN st.prev ELSE None]
              /\ rtt_history = [h \in HostSet(hosts) |-> IF h = first THEN st.hist ELSE <<>>]
              /\ applied = [h \in HostSet(hosts) |-> IF h = first THEN st.app ELSE <<>>]
              /\ events = st.evs
              /\ tg_calls = Cardinality({i \in DOMAIN st.app : st.app[i].alert})

Next ==
    \/ schedule_checks
    \/ update_row
    \/ dialog_closed
    \/ dialog_unwound
    \/ telegram_worker
    \/ on_close
    \/ \E w \in 1..MaxWorkers : ping_done(w)
    \/ \E w \in 1..MaxWorkers : post_result(w)
    \/ \E name \in NameInputs, host \in Addrs \cup {""}, sel \in 0..Len(hosts) : on_save(name, host, sel)
    \/ \E sel \in 1..Len(hosts) : on_delete(sel)
    \/ \E enabled \in BOOLEAN, creds \in BOOLEAN : on_save_tg(enabled, creds)
    \/ clear_history

Spec == Init /\ [][Next]_vars

SpecHist == InitHist /\ [][Next]_vars

----------------------------------------------------------------------------
(* properties *)

\* the is_up values applied to target h, and what each application emitted
Ups(h) == [i \in DOMAIN applied[h] |-> applied[h][i].is_up]
Emitted(h) == [i \in DOMAIN applied[h] |-> applied[h][i].event]

\* the targets to which this step applied a probe result
AppliedNow == {h \in DOMAIN applied \cap DOMAIN applied' :
                  Len(applied'[h]) = Len(applied[h]) + 1}

Front(s) == SubSeq(s, 1, Len(s) - 1)

\* C1: update_row appends a transition event at a probe if and only if the
\* target's previous reachability is known and differs from the new result;
\* the first probe applied for a target emits nothing; the results
\* [up, up, down, down, up] emit exactly DOWN at index 2 and UP at index 4.
C1_Emitted ==
    \A h \in DOMAIN applied : \A i \in DOMAIN applied[h] :
        LET e == applied[h][i]
        IN  /\ (e.prev = None) <=> (i = 1)
            /\ e.event = IF e.prev # None /\ e.prev # Some(e.is_up)
                         THEN StatusStr(e.is_up) ELSE "none"
            /\ i > 1 => e.prev = Some(applied[h][i - 1].is_up)

C1_Sequence ==
    \A h \in DOMAIN applied :
        Ups(h) = <<TRUE, TRUE, FALSE, FALSE, TRUE>>
            => Emitted(h) = <<"none", "none", "DOWN", "none", "UP">>

C1_Logged ==
    \A h \in AppliedNow :
        LET e == Last(applied'[h])
        IN  events' = IF e.event = "none"
                      THEN events
                      ELSE Append(events, [timestamp |-> e.now, name |-> e.name,
                                           host |-> h, status |-> e.event])

C1_TransitionIff == [](C1_Emitted /\ C1_Sequence) /\ [][C1_Logged]_vars

C1_Witness ==
    /\ "a" \in DOMAIN applied
    /\ Ups("a") = <<TRUE, TRUE, FALSE, FALSE, TRUE>>
    /\ Len(events) = 2

\* C2: the alert path (warning dialog, then send_telegram_alert) is entered
\* exactly once by an application that takes a target from up to down, and
\* not by a down-to-up application, a repeated down or a first probe that is
\* down; send_telegram_alert is called only when a warning dialog returns,
\* once per dialog.
C2_AlertOnEdge ==
    \A h \in DOMAIN applied : \A i \in DOMAIN applied[h] :
        applied[h][i].alert <=>
            (i > 1 /\ applied[h][i - 1].is_up /\ ~applied[h][i].is_up)

C2_Raised ==
    /\ \A h \in AppliedNow :
          /\ dialogs' = IF Last(applied'[h]).alert
                        THEN Append(dialogs, [name |-> Last(applied'[h]).name, host |-> h])
                        ELSE dialogs
          /\ tg_calls' = tg_calls
    /\ Len(dialogs') > Len(dialogs) => AppliedNow # {}

C2_Telegram ==
    /\ tg_calls' # tg_calls =>
          /\ tg_calls' = tg_calls + 1
          /\ dialogs # <<>>
          /\ dialogs' = Front(dialogs)
    /\ (~destroyed /\ Len(dialogs') < Len(dialogs)) =>
          /\ dialogs' = Front(dialogs)
          /\ tg_calls' = tg_calls + 1

C2_AlertOncePerDownTransition ==
    []C2_AlertOnEdge /\ [][C2_Raised /\ C2_Telegram]_vars

C2_Witness ==
    /\ "a" \in DOMAIN applied
    /\ Ups("a") = <<TRUE, FALSE>>
    /\ applied["a"][2].alert
    /\ dialogs = <<>>
    /\ tg_calls = 1

\* C3: no target ever has more than MAX_RTT_POINTS history samples; an
\* append to a full history removes exactly the oldest sample, keeps the
\* others in order and puts the new sample last.
C3_Bounded == \A h \in DOMAIN rtt_history : Len(rtt_history[h]) <= MAX_RTT_POINTS

C3_Evicts ==
    \A h \in AppliedNow :
        LET old == rtt_history[h]
            new == rtt_history'[h]
            e == Last(applied'[h])
        IN  Len(old) = MAX_RTT_POINTS =>
                /\ Len(new) = MAX_RTT_POINTS
                /\ Front(new) = Tail(old)
                /\ Last(new) = [t |-> e.t, rtt |-> e.rtt]

C3_HistoryBounded == []C3_Bounded /\ [][C3_Evicts]_vars

C3_Witness ==
    \E h \in DOMAIN applied :
        /\ Len(applied[h]) = MAX_RTT_POINTS + 1
        /\ Len(rtt_history[h]) = MAX_RTT_POINTS
        /\ rtt_history[h][1].t = applied[h][2].t

\* C4: once on_close has set _stop, no step changes the status or the
\* history of any target, whatever probes complete and whatever update_row
\* calls were queued.
C4_NoMutationAfterStop ==
    [][stop => (prev_status' = prev_status /\ rtt_history' = rtt_history)]_vars

C4_Witness ==
    /\ stop
    /\ queue # <<>>
    /\ \E w \in 1..MaxWorkers : workers[w].pc = "post" /\ workers[w].now = MaxClock

Active == {w \in 1..MaxWorkers : workers[w].pc # "idle"}

C5_Handed ==
    \A w \in Active :
        LET wk == workers[w]
        IN  /\ wk.i \in 1..Len(wk.snap)
            /\ wk.handed = [k \in 1..(wk.i - 1) |-> wk.snap[k].host]

C5_HandsOver ==
    \A w \in 1..MaxWorkers :
        (workers[w].pc = "post" /\ workers'[w] # workers[w] /\ ~destroyed) =>
            LET wk == workers[w]
            IN  /\ Len(queue') = Len(queue) + 1
                /\ Last(queue').host = wk.snap[wk.i].host
                /\ \/ workers'[w].pc = "idle" /\ wk.i = Len(wk.snap)
                   \/ workers'[w].pc = "ping" /\ workers'[w].i = wk.i + 1

C6_NextTickNotDelayed ==
    (~destroyed /\ ticks < MaxTicks /\ FreeSlots # {}) =>
        (timer /\ ENABLED schedule_checks)

C6_Witness ==
    /\ Cardinality(Active) = 2
    /\ \A w \in Active : workers[w].pc = "ping" /\ workers[w].i = 1

\* C7 (as claimed): the applications of probe results to one target are
\* serialized (each reads the status the one before it wrote) and follow the
\* order in which the probes completed.
C7_SerializedInCompletionOrder ==
    \A h \in DOMAIN applied : \A i \in DOMAIN applied[h] :
        i > 1 => /\ applied[h][i].prev = Some(applied[h][i - 1].is_up)
                 /\ applied[h][i - 1].now < applied[h][i].now

\* C8: an edit of the host list re-synchronizes the per-target state: the
\* maps hold exactly the configured addresses, an address that was not
\* configured before gets status None and an empty history, the state of an
\* address no longer configured is dropped, the state of the others is kept;
\* the first probe applied to a target after that emits no transition.
C8_Resync ==
    hosts' # hosts =>
        /\ DOMAIN prev_status' = HostSet(hosts')
        /\ DOMAIN rtt_history' = HostSet(hosts')
        /\ DOMAIN rows' = HostSet(hosts')
        /\ \A h \in HostSet(hosts') :
              IF h \in HostSet(hosts)
              THEN prev_status'[h] = prev_status[h] /\ rtt_history'[h] = rtt_history[h]
              ELSE prev_status'[h] = None /\ rtt_history'[h] = <<>>

C8_FirstProbe ==
    /\ \A h \in DOMAIN prev_status :
          prev_status[h] = None => ~IsTransition(prev_status[h], TRUE)
                                   /\ ~IsTransition(prev_status[h], FALSE)
    /\ \A h \in DOMAIN applied :
          applied[h] # <<>> => applied[h][1].prev = None /\ applied[h][1].event = "none"

C8_TargetsResynchronized == []C8_FirstProbe /\ [][C8_Resync]_vars

C8_Witness ==
    /\ ~destroyed
    /\ ops = 2
    /\ clock = 2
    /\ Active = {}
    /\ queue = <<>>
    /\ hosts = <<[name |-> "n", host |-> "a"]>>
    /\ Len(applied["a"]) = 1
    /\ applied["a"][1].now = 2
    /\ Len(rtt_history["a"]) = 1
    /\ prev_status["a"] = Some(FALSE)
    /\ events = <<>>

\* the outcome of a probe that timed out
TimeoutOutcome == CHOOSE o \in Outcomes : IsTimeout(o)

\* C9: every failure of a probe (spawn error or other exception, non-zero
\* exit, timeout) gives the result of a timeout, is_up = False with rtt None;
\* what is handed to update_row and what update_row records for it (a None
\* sample, status False, event and alert by the edge alone) is the same, and
\* the round goes on with its next target.
C9_FailureResult ==
    /\ \A w \in Active :
          (workers[w].pc = "post" /\ IsFailure(workers[w].outcome[1])) =>
              /\ workers[w].is_up = FALSE
              /\ workers[w].rtt = None
              /\ [is_up |-> workers[w].is_up, rtt |-> workers[w].rtt] = ping_host(TimeoutOutcome)
    /\ \A i \in DOMAIN queue : ~queue[i].is_up => queue[i].rtt = None
    /\ \A h \in DOMAIN applied : \A i \in DOMAIN applied[h] :
          LET e == applied[h][i]
          IN  ~e.is_up =>
                /\ e.rtt = None
                /\ e.event = IF e.prev = Some(TRUE) THEN "DOWN" ELSE "none"
                /\ e.alert = (e.prev = Some(TRUE))
    /\ \A h \in DOMAIN prev_status :
          (prev_status[h] = Some(FALSE) /\ rtt_history[h] # <<>>) => Last(rtt_history[h]).rtt = None

C9_RoundGoesOn ==
    \A w \in 1..MaxWorkers :
        (/\ workers[w].pc = "post"
         /\ IsFailure(workers[w].outcome[1])
         /\ workers'[w] # workers[w]
         /\ ~destroyed) =>
            LET wk == workers[w]
            IN  /\ queue' = Append(queue, [host |-> wk.snap[wk.i].host, name |-> wk.snap[wk.i].name,
                                           is_up |-> FALSE, rtt |-> None, now |-> wk.now])
                /\ wk.i < Len(wk.snap) => workers'[w].pc = "ping" /\ workers'[w].i = wk.i + 1

C9_FailuresAlike == []C9_FailureResult /\ [][C9_RoundGoesOn]_vars

C9_Witness ==
    \E w \in Active :
        /\ workers[w].i = 2
        /\ workers[w].pc = "post"
        /\ workers[w].outcome[1].exc
        /\ \E h \in DOMAIN applied :
              /\ applied[h] # <<>>
              /\ ~applied[h][1].is_up
              /\ applied[h][1].now = 1

\* update_graph reads the history of the selected host (line 513)
update_graph_hist(host) == Get(rtt_history, host, <<>>)

\* C10: as long as no more than MAX_RTT_POINTS samples were appended to the
\* history of a target since it was empty, reading the history gives exactly
\* these samples, in the order of their insertion.
C10_RoundTrip ==
    \A h \in DOMAIN applied :
        Len(applied[h]) <= MAX_RTT_POINTS =>
            update_graph_hist(h) =
                [i \in DOMAIN applied[h] |-> [t |-> applied[h][i].t, rtt |-> applied[h][i].rtt]]

C10_Witness ==
    \E h \in DOMAIN applied :
        /\ Len(applied[h]) = MAX_RTT_POINTS
        /\ applied[h][MAX_RTT_POINTS].t > 0
        /\ Len(update_graph_hist(h)) = MAX_RTT_POINTS

\* s is an initial part of t
IsPrefix(s, t) == Len(s) <= Len(t) /\ s = SubSeq(t, 1, Len(s))

\* C11: every application that is a transition (up to down or down to up)
\* appends its event at the end of the log, in the order of application;
\* the log loses an entry only in a clear_history step; an edit of the host
\* list, a change of the settings and an eviction from a full RTT history
\* leave the log as it is.
C11_Appends ==
    \A h \in AppliedNow :
        LET e == Last(applied'[h])
        IN  /\ (e.prev # None /\ e.prev # Some(e.is_up)) =>
                  /\ events' = Append(events, [timestamp |-> e.now, name |-> e.name,
                                               host |-> h, status |-> StatusStr(e.is_up)])
                  /\ e.event \in {"UP", "DOWN"}
            /\ e.event = "none" => events' = events
            /\ Len(rtt_history[h]) = MAX_RTT_POINTS => IsPrefix(events, events')

C11_OnlyClearRemoves ==
    /\ ~IsPrefix(events, events') => (clear_history /\ events' = <<>>)
    /\ events' # events => (AppliedNow # {} \/ clear_history)
    /\ (hosts' # hosts \/ telegram_enabled' # telegram_enabled
                       \/ telegram_creds' # telegram_creds) => events' = events

C11_EventLogAppendOnly == [][C11_Appends /\ C11_OnlyClearRemoves]_vars

C11_Witness ==
    /\ Len(events) = 2
    /\ events[1].status = "DOWN"
    /\ events[2].status = "UP"
    /\ events[1].host \notin HostSet(hosts)
    /\ events[1].host = events[2].host

\* an alert is outstanding: a warning dialog is open or a Telegram _worker
\* thread has not ended
AlertOutstanding == dialogs # <<>> \/ tg_threads > 0

\* C12: an outstanding alert does not block the application of probe
\* results: while a warning dialog is open or a Telegram thread runs, a
\* queued result of any target can be applied and is applied when
\* dispatched; the end of a delivery attempt, failed or not, changes nothing
\* but the thread count, and a delivery is attempted at most once per call
\* of send_telegram_alert, only when Telegram is enabled and configured.
C12_NotBlocked ==
    (AlertOutstanding /\ ~destroyed /\ queue # <<>>) => ENABLED update_row

C12_AppliedWhileOutstanding ==
    (AlertOutstanding /\ queue # <<>> /\ queue' = Tail(queue)
                      /\ Head(queue).host \in DOMAIN rows) =>
        /\ AppliedNow = {Head(queue).host}
        /\ prev_status'[Head(queue).host] = Some(Head(queue).is_up)

C12_Swallowed ==
    /\ tg_threads' < tg_threads =>
          /\ tg_threads' = tg_threads - 1
          /\ UNCHANGED <<hosts, rows, prev_status, rtt_history, events, stop, destroyed,
                         timer, workers, queue, dialogs, telegram_enabled, telegram_creds,
                         tg_calls, clock, ticks, ops, applied, discarded>>
    /\ tg_threads' > tg_threads =>
          /\ tg_threads' = tg_threads + 1
          /\ tg_calls' = tg_calls + 1
          /\ telegram_enabled /\ telegram_creds
    /\ (tg_calls' # tg_calls /\ ~(telegram_enabled /\ telegram_creds)) =>
          tg_threads' = tg_threads

C12_AlertFireAndForget ==
    []C12_NotBlocked /\ [][C12_AppliedWhileOutstanding /\ C12_Swallowed]_vars

C12_Witness ==
    /\ tg_threads = 1
    /\ \E h \in DOMAIN applied : \E i \in DOMAIN applied[h] :
          applied[h][i].alert /\ applied[h][i].t = 1
    /\ \E h \in DOMAIN applied : applied[h] # <<>> /\ Last(applied[h]).t = 2

\* C13: shutdown is terminal and immediate: once on_close has set _stop the
\* flag stays set, the root stays destroyed, no probing round is started,
\* the timer is not re-armed and no worker thread is created; on_close has
\* no further effect.
C13_Terminal ==
    stop =>
        /\ stop' /\ destroyed'
        /\ ticks' = ticks
        /\ timer' = timer
        /\ \A w \in 1..MaxWorkers : workers[w].pc = "idle" => workers'[w].pc = "idle"
        /\ ~(ENABLED schedule_checks)
        /\ ~(ENABLED on_close)

C13_StopImmediate ==
    (~stop /\ stop') =>
        /\ destroyed'
        /\ ticks' = ticks
        /\ workers' = workers
        /\ queue' = queue

C13_StoppedIsTerminal == [](stop => destroyed) /\ [][C13_Terminal /\ C13_StopImmediate]_vars

C13_Witness ==
    /\ stop
    /\ timer
    /\ ticks = 1
    /\ FreeSlots # {}
    /\ Active # {}
    /\ hosts # <<>>
    /\ clock = MaxClock

\* the applications to target h whose probe completed before the probe of
\* application i did (now is taken when ping_host returns)
CompletedBefore(h, i) ==
    {j \in DOMAIN applied[h] : applied[h][j].now < applied[h][i].now}

\* the one of the applications in S whose probe completed last
LatestOf(h, S) ==
    CHOOSE j \in S : \A k \in S : applied[h][k].now <= applied[h][j].now

\* C14 (as claimed): the status of a target is written once per completed
\* probe, and the previous reachability compared when a probe's result is
\* recorded is the reachability given by the probe of that target that
\* completed immediately before it, or unknown when none completed before.
C14_PrevIsPrecedingCompleted ==
    \A h \in DOMAIN applied : \A i \in DOMAIN applied[h] :
        LET before == CompletedBefore(h, i)
        IN  applied[h][i].prev = IF before = {}
                                 THEN None
                                 ELSE Some(applied[h][LatestOf(h, before)].is_up)

\* C14 (what the code keeps): every result update_row dispatches for a
\* configured target writes the status once, and compares the status the
\* application before it wrote, in the order of application.
C14_OncePerApplied ==
    (queue # <<>> /\ queue' = Tail(queue) /\ Head(queue).host \in DOMAIN rows) =>
        LET h == Head(queue).host
        IN  /\ AppliedNow = {h}
            /\ Last(applied'[h]).prev = prev_status[h]
            /\ prev_status' = [prev_status EXCEPT ![h] = Some(Head(queue).is_up)]

C14_PrevIsPrecedingApplied == [][C14_OncePerApplied]_vars

\* C15: the status map, the history map and the row map always have
\* exactly the configured addresses as keys; a probe result dispatched for
\* an address that is no longer configured is dropped: no status or history
\* entry is created, no event is logged, no alert is raised.
C15_KeySets ==
    /\ DOMAIN prev_status = HostSet(hosts)
    /\ DOMAIN rtt_history = HostSet(hosts)
    /\ DOMAIN rows = HostSet(hosts)

C15_Discards ==
    (queue # <<>> /\ queue' = Tail(queue) /\ Head(queue).host \notin HostSet(hosts)) =>
        /\ discarded' = discarded + 1
        /\ UNCHANGED <<hosts, rows, prev_status, rtt_history, events, dialogs,
                       tg_calls, tg_threads, applied>>

C15_MapsFollowTargets == []C15_KeySets /\ [][C15_Discards]_vars

C15_Witness ==
    /\ discarded = 1
    /\ hosts # <<>>
    /\ queue = <<>>
    /\ ~destroyed
    /\ \E h \in DOMAIN applied : applied[h] # <<>>

\* C16: status and history of a target are written together: the history
\* is empty exactly when the status is unknown, and otherwise its newest
\* sample has no latency exactly when the status is down; an edit that
\* changes names only (same addresses at the same places) changes neither.
C16_Consistent ==
    \A h \in DOMAIN prev_status :
        /\ h \in DOMAIN rtt_history
        /\ (rtt_history[h] = <<>>) <=> (prev_status[h] = None)
        /\ rtt_history[h] # <<>> =>
              ((Last(rtt_history[h]).rtt = None) <=> (prev_status[h] = Some(FALSE)))

C16_RenameKeeps ==
    (/\ hosts' # hosts
     /\ Len(hosts') = Len(hosts)
     /\ \A i \in DOMAIN hosts : hosts'[i].host = hosts[i].host) =>
        /\ prev_status' = prev_status
        /\ rtt_history' = rtt_history

C16_StatusAndHistoryAgree == []C16_Consistent /\ [][C16_RenameKeeps]_vars

C16_Witness ==
    /\ clock = 0
    /\ hosts # <<>>
    /\ hosts[1] = [name |-> "a", host |-> "a"]
    /\ "a" \in DOMAIN prev_status
    /\ "a" \in DOMAIN rtt_history
    /\ prev_status["a"] = Some(FALSE)
    /\ Len(rtt_history["a"]) = 3
    /\ Last(rtt_history["a"]).rtt = None

====
